---------------------------- MODULE Spec2Model ----------------------------
(***************************************************************************)
(* Model of the Intel FPGA Crypto Services driver                           *)
(* (drivers/crypto/intel_fcs.c): the ioctl handler fcs_ioctl, the          *)
(* synchronous call primitive fcs_request_service, the four completion     *)
(* callbacks and the shared-buffer helper fcs_close_services.              *)
(*                                                                         *)
(* Callers are the processes of Procs; each runs fcs_ioctl, cut into steps *)
(* at its accesses to the state shared with other callers and with the     *)
(* service channel (the mutex, the completion, priv->status/kbuf/size,     *)
(* priv->client.receive_cb).  The service channel and the buffer pool are  *)
(* the environment: a command accepted by stratix10_svc_send stays in chan *)
(* until its callback fires, and the notification it carries is any value  *)
(* of the notification's type.                                             *)
(*                                                                         *)
(* 32-bit values are written as the signed integer with the same bits, so  *)
(* the unsigned priv->status holding -EINVAL is written -22 and            *)
(* INVALID_STATUS (0xffffffff) is written -1.                              *)
(***************************************************************************)
EXTENDS Integers, Sequences, FiniteSets, TLC

\* ------------------------------------------------------------- bounds
\* Number of concurrent callers of fcs_ioctl.
NumProcs == 2
\* Total number of ioctl requests issued by all callers together.
MaxReqs == 2

Procs == 1..NumProcs

\* ---------------------------------------------------------- constants
RANDOM_NUMBER_SIZE == 32
PS_BUF_SIZE == 64
SHA384_SIZE == 48
INVALID_STATUS == -1
INVALID_CID == -1

DEC_MIN_SZ == 72
DEC_MAX_SZ == 32712
ENC_MIN_SZ == 120
ENC_MAX_SZ == 32760

SUBKEY_CMD_MAX_SZ == 4092
SUBKEY_RSP_MAX_SZ == 820
MEASUREMENT_CMD_MAX_SZ == 4092
MEASUREMENT_RSP_MAX_SZ == 4092
CERTIFICATE_RSP_MAX_SZ == 4096

SIGMA_SESSION_ID_ONE == 1
SIGMA_UNKNOWN_SESSION == -1

\* sizeof(struct intel_fcs_cert_test_word), sizeof(struct
\* intel_fcs_attestation_resv_word): one 32-bit word each.
TEST_WORD_SIZE == 4
RESV_WORD_SIZE == 4

\* errno values returned by the driver
EINVAL == 22
ETIMEDOUT == 110
EFAULT == 14
ENOMEM == 12

\* enum stratix10_svc_status; a notification carries BIT(status)
SVC_STATUS_OK == 0
SVC_STATUS_COMPLETED == 3
SVC_STATUS_BUSY == 4
SVC_STATUS_ERROR == 5
SVC_STATUS_INVALID_PARAM == 7

BIT(n) == 2 ^ n

\* A pointer to a shared buffer names the allocation it came from: the
\* caller, its request and the local that received it.
NULL == [owner |-> 0, n |-> 0, slot |-> "null"]

\* The statuses a notification can carry.
SvcStatus ==
  { BIT(SVC_STATUS_OK), BIT(SVC_STATUS_COMPLETED), BIT(SVC_STATUS_BUSY),
    BIT(SVC_STATUS_ERROR), BIT(SVC_STATUS_INVALID_PARAM) }

\* The mailbox error code *kaddr1 of an ERROR notification.
MboxError == {1023}

\* The result length *kaddr3 of a notification: one value within every
\* response bound of the driver and one beyond all of them.
NotifSize == {32, 5000}

\* The word a caller reads at the start of a shared buffer (the length the
\* co-processor left in the status buffer): one value within the capacity
\* of every destination buffer and one beyond all of them.
BufWord == {32, 40000}

\* The low and the high word of a chip-identifier notification.
ChipLow == {11}
ChipHigh == {12}

\* data->status as the caller passes it in.
UserStatus == {-1}

\* ------------------------------------------------------------- state
VARIABLES
  th,          \* per caller: the locals of its fcs_ioctl call
  lock,        \* priv->lock: 0 (free) or the caller holding it
  completion,  \* priv->completion: ids of the commands that called complete()
  receive_cb,  \* priv->client.receive_cb
  priv,        \* priv->status, kbuf, size, cid_low, cid_high
  chan,        \* commands accepted by the channel, callback not yet fired
  heap,        \* the shared buffers currently allocated: buffer -> capacity, writer
  nreq         \* ioctl requests issued so far

vars == <<th, lock, completion, receive_cb, priv, chan, heap, nreq>>

NoId == [owner |-> 0, n |-> 0, phase |-> 0]

\* struct stratix10_svc_client_msg after devm_kzalloc
ZeroMsg ==
  [command |-> "NONE", payload |-> NULL, payload_length |-> 0,
   payload_output |-> NULL, payload_length_output |-> 0]

\* struct intel_fcs_dev_ioctl: the fields the handler reports through
ZeroData ==
  [status |-> 0, c_status |-> 0, size |-> 0, payload |-> NoId,
   cid_low |-> 0, cid_high |-> 0]

\* Bookkeeping of one fcs_ioctl call, beside the code's own locals:
\*   allocs  buffers the call allocated        frees   frees per buffer
\*   wake    how the latest fcs_request_service returned
\*   reads   record fields read after the latest fcs_request_service
\*   src     the command whose callback wrote the status the call reported
\*   deref   the latest dereference of priv->kbuf
\*   sent    commands the call had accepted by the channel
\*   copy    the latest copy out of a shared buffer: bytes copied, capacity
\*   arg     the sizes the caller passed in the struct at arg
\*   solo    no other call of fcs_ioctl was in progress when this one began
\*   cb      the callback the call assigned to receive_cb for its latest command
IdleLocals ==
  [pc |-> "idle", cmd |-> "NONE", n |-> 0, phase |-> 0, ret |-> 0,
   s_buf |-> NULL, d_buf |-> NULL, ps_buf |-> NULL,
   msg |-> ZeroMsg, data |-> ZeroData,
   allocs |-> {}, frees |-> <<>>, wake |-> "none", reads |-> FALSE,
   src |-> NoId, deref |-> "none", sent |-> 0,
   copy |-> [len |-> 0, cap |-> 0],
   arg |-> [src_size |-> 0, dst_size |-> 0], solo |-> FALSE,
   cb |-> "NULL"]

\* Beside the fields of the code, priv carries the command whose callback
\* last wrote priv->status (wstatus) and priv->kbuf (wkbuf), and whether the
\* notification the latest callback received was a chip-identifier
\* command's with SVC_STATUS_OK (wok).
Init ==
  /\ th = [t \in Procs |-> IdleLocals]
  /\ lock = 0
  /\ completion = <<>>
  /\ receive_cb = "NULL"
  /\ priv = [status |-> INVALID_STATUS, kbuf |-> NULL, size |-> 0,
             cid_low |-> INVALID_CID, cid_high |-> INVALID_CID,
             wstatus |-> NoId, wkbuf |-> NoId, wok |-> FALSE]
  /\ chan = {}
  /\ heap = <<>>
  /\ nreq = 0

\* No caller is on its way out of fcs_ioctl.  A return touches nothing but
\* the returning call's locals, so it is taken before any other step.
Quiet == \A t \in Procs : th[t].pc # "return"

\* ------------------------------------------------------- buffer pool
\* The buffer a caller's request receives in local `slot`.
Buf(t, slot) == [owner |-> t, n |-> th[t].n, slot |-> slot]

\* A frame is the pair of a call's locals and the pool, threaded through the
\* straight-line code of one step.
Frame(l, h) == [l |-> l, h |-> h]

\* stratix10_svc_allocate_memory succeeding: the buffer joins the pool.
Allocated(f, b, size) ==
  Frame([f.l EXCEPT !.allocs = @ \cup {b}],
        [x \in DOMAIN f.h \cup {b} |->
           IF x = b THEN [cap |-> size, by |-> NoId] ELSE f.h[x]])

\* stratix10_svc_free_memory: the buffer leaves the pool; the call is
\* recorded whether or not the buffer was still allocated.
stratix10_svc_free_memory(f, b) ==
  Frame([f.l EXCEPT !.frees = Append(@, b)],
        [x \in DOMAIN f.h \ {b} |-> f.h[x]])

fcs_close_services(f, sbuf, dbuf) ==
  LET f1 == IF sbuf # NULL THEN stratix10_svc_free_memory(f, sbuf) ELSE f
  IN  IF dbuf # NULL THEN stratix10_svc_free_memory(f1, dbuf) ELSE f1

\* The step of caller t ends with locals and pool as in frame f.
Commit(t, f) ==
  /\ th' = [th EXCEPT ![t] = f.l]
  /\ heap' = f.h

\* fcs_ioctl is about to return r.
Return(l, r) == [l EXCEPT !.pc = "return", !.ret = r]

\* The step ends in `return r` (or `break` with ret = r).
Returns(t, f, r) ==
  /\ Commit(t, Frame(Return(f.l, r), f.h))
  /\ receive_cb' = receive_cb

\* The step ends at `priv->client.receive_cb = cb; fcs_request_service(...)`
\* for the `phase`-th time in the call.
Requests(t, f, cb, phase) ==
  /\ Commit(t, Frame([f.l EXCEPT !.pc = "lock", !.phase = phase,
                                 !.wake = "none", !.reads = FALSE,
                                 !.cb = cb], f.h))
  /\ receive_cb' = cb

\* -------------------------------------------------- completion callbacks
\* A data callback that stores the status and the length and leaves
\* priv->kbuf as it finds it.
fcs_data_callback_keeps_kbuf(p, d, id) ==
  IF d.status = BIT(SVC_STATUS_OK) \/ d.status = BIT(SVC_STATUS_COMPLETED)
  THEN [p EXCEPT !.status = 0, !.size = d.w3, !.wstatus = id]
  ELSE IF d.status = BIT(SVC_STATUS_ERROR)
  THEN [p EXCEPT !.status = d.w1, !.size = IF d.k3 THEN d.w3 ELSE 0,
                 !.wstatus = id]
  ELSE [p EXCEPT !.status = -EINVAL, !.size = 0, !.wstatus = id]

\* A notification d: status, *kaddr1 (mbox error), kaddr2 (result pointer),
\* w2 (the word at kaddr2), k3 (whether kaddr3 is set), w3 (the word at
\* kaddr3).  id names the command the notification belongs to.
fcs_data_callback(p, d, id) ==
  IF d.status = BIT(SVC_STATUS_OK) \/ d.status = BIT(SVC_STATUS_COMPLETED)
  THEN [p EXCEPT !.status = 0, !.kbuf = d.kaddr2, !.size = d.w3,
                 !.wstatus = id, !.wkbuf = id]
  ELSE IF d.status = BIT(SVC_STATUS_ERROR)
  THEN [p EXCEPT !.status = d.w1, !.kbuf = d.kaddr2,
                 !.size = IF d.k3 THEN d.w3 ELSE 0,
                 !.wstatus = id, !.wkbuf = id]
  ELSE [p EXCEPT !.status = -EINVAL, !.kbuf = NULL, !.size = 0,
                 !.wstatus = id, !.wkbuf = id]

\* A status-only callback that also stores the notification's result
\* pointer and length.
fcs_vab_callback_stores_result(p, d, id) ==
  IF d.status = BIT(SVC_STATUS_ERROR)
  THEN [p EXCEPT !.status = d.w1, !.kbuf = d.kaddr2, !.size = d.w3,
                 !.wstatus = id]
  ELSE IF d.status = BIT(SVC_STATUS_BUSY)
  THEN [p EXCEPT !.status = -ETIMEDOUT, !.kbuf = d.kaddr2, !.size = d.w3,
                 !.wstatus = id]
  ELSE IF d.status = BIT(SVC_STATUS_INVALID_PARAM)
  THEN [p EXCEPT !.status = -EINVAL, !.kbuf = d.kaddr2, !.size = d.w3,
                 !.wstatus = id]
  ELSE IF d.status = BIT(SVC_STATUS_OK)
  THEN [p EXCEPT !.status = 0, !.kbuf = d.kaddr2, !.size = d.w3,
                 !.wstatus = id]
  ELSE [p EXCEPT !.status = -EINVAL, !.kbuf = d.kaddr2, !.size = d.w3,
                 !.wstatus = id]

fcs_vab_callback(p, d, id) ==
  IF d.status = BIT(SVC_STATUS_ERROR)
  THEN [p EXCEPT !.status = d.w1, !.wstatus = id]
  ELSE IF d.status = BIT(SVC_STATUS_BUSY)
  THEN [p EXCEPT !.status = -ETIMEDOUT, !.wstatus = id]
  ELSE IF d.status = BIT(SVC_STATUS_INVALID_PARAM)
  THEN [p EXCEPT !.status = -EINVAL, !.wstatus = id]
  ELSE IF d.status = BIT(SVC_STATUS_OK)
  THEN [p EXCEPT !.status = 0, !.wstatus = id]
  ELSE [p EXCEPT !.status = -EINVAL, !.wstatus = id]

fcs_chipid_callback(p, d, id) ==
  IF d.status = BIT(SVC_STATUS_OK)
  THEN [p EXCEPT !.status = 0, !.cid_low = d.w2, !.cid_high = d.w3,
                 !.wstatus = id]
  ELSE IF d.status = BIT(SVC_STATUS_ERROR)
  THEN [p EXCEPT !.status = d.w1, !.wstatus = id]
  ELSE [p EXCEPT !.status = d.status, !.wstatus = id]

\* An attestation callback that normalises every status but ERROR to
\* InvalidParameter, as the data callback does.
fcs_attestation_callback_normalised(p, d, id) ==
  IF d.status = BIT(SVC_STATUS_OK)
  THEN [p EXCEPT !.status = 0, !.kbuf = d.kaddr2, !.size = d.w3,
                 !.wstatus = id, !.wkbuf = id]
  ELSE IF d.status = BIT(SVC_STATUS_ERROR)
  THEN [p EXCEPT !.status = d.w1, !.wstatus = id]
  ELSE [p EXCEPT !.status = -EINVAL, !.wstatus = id]

fcs_attestation_callback(p, d, id) ==
  IF d.status = BIT(SVC_STATUS_OK)
  THEN [p EXCEPT !.status = 0, !.kbuf = d.kaddr2, !.size = d.w3,
                 !.wstatus = id, !.wkbuf = id]
  ELSE IF d.status = BIT(SVC_STATUS_ERROR)
  THEN [p EXCEPT !.status = d.w1, !.wstatus = id]
  ELSE [p EXCEPT !.status = d.status, !.wstatus = id]

\* The callback registered in priv->client.receive_cb.
ReceiveCb(shape, p, d, id) ==
  CASE shape = "fcs_data_callback" -> fcs_data_callback(p, d, id)
    [] shape = "fcs_vab_callback" -> fcs_vab_callback(p, d, id)
    [] shape = "fcs_chipid_callback" -> fcs_chipid_callback(p, d, id)
    [] shape = "fcs_attestation_callback" -> fcs_attestation_callback(p, d, id)

\* ------------------------------------------------------------- channel
\* The buffer the co-processor returns the result of command c in: the
\* status buffer of a poll, else the output buffer, else the payload.
ResultBuffer(c) ==
  IF c.command = "COMMAND_POLL_SERVICE_STATUS" THEN c.payload
  ELSE IF c.payload_output # NULL THEN c.payload_output
  ELSE c.payload

\* The notifications the channel can deliver for command c.  A successful
\* one carries a result length and a result pointer, which is null or the
\* command's result buffer; an ERROR one carries a mailbox error code and
\* either a partial result (pointer and length) or none; the others carry
\* nothing.  For a chip-identifier command kaddr2 and kaddr3 point to the
\* two words of the identifier.
Notification(c) ==
  LET blank == [status |-> 0, w1 |-> 0, kaddr2 |-> NULL, w2 |-> 0,
                k3 |-> FALSE, w3 |-> 0]
      others == { [blank EXCEPT !.status = s] :
                    s \in SvcStatus \ {BIT(SVC_STATUS_OK),
                                       BIT(SVC_STATUS_COMPLETED),
                                       BIT(SVC_STATUS_ERROR)} }
  IN  IF c.command = "COMMAND_FCS_GET_CHIP_ID"
      THEN { [blank EXCEPT !.status = BIT(SVC_STATUS_OK), !.w2 = lo,
                           !.k3 = TRUE, !.w3 = hi] :
               lo \in ChipLow, hi \in ChipHigh }
           \cup { [blank EXCEPT !.status = BIT(SVC_STATUS_ERROR), !.w1 = e] :
                    e \in MboxError }
           \cup { [blank EXCEPT !.status = BIT(SVC_STATUS_COMPLETED)] }
           \cup others
      ELSE { [blank EXCEPT !.status = s, !.kaddr2 = ResultBuffer(c),
                           !.k3 = TRUE, !.w3 = sz] :
               s \in {BIT(SVC_STATUS_OK), BIT(SVC_STATUS_COMPLETED)},
               sz \in NotifSize }
           \cup { [blank EXCEPT !.status = s, !.k3 = TRUE] :
                    s \in {BIT(SVC_STATUS_OK), BIT(SVC_STATUS_COMPLETED)} }
           \cup { [blank EXCEPT !.status = BIT(SVC_STATUS_ERROR), !.w1 = e,
                                !.kaddr2 = ResultBuffer(c),
                                !.k3 = TRUE, !.w3 = sz] :
                    e \in MboxError, sz \in NotifSize }
           \cup { [blank EXCEPT !.status = BIT(SVC_STATUS_ERROR), !.w1 = e] :
                    e \in MboxError }
           \cup others

\* The co-processor's writes on behalf of command id into the buffers bs.
Written(h, bs, id) ==
  [x \in DOMAIN h |-> IF x \in bs THEN [h[x] EXCEPT !.by = id] ELSE h[x]]

\* The channel's thread delivers the notification of an accepted command to
\* the callback registered at that moment.  By then the co-processor has
\* written the command's output buffer and the buffer the result pointer
\* names.
Callback ==
  \E c \in chan : \E d \in Notification(c) :
    /\ Quiet
    /\ chan' = chan \ {c}
    /\ priv' = [ReceiveCb(receive_cb, priv, d, c.id) EXCEPT
                 !.wok = /\ c.command = "COMMAND_FCS_GET_CHIP_ID"
                         /\ d.status = BIT(SVC_STATUS_OK)]
    /\ completion' = Append(completion, c.id)
    /\ heap' = Written(heap, {d.kaddr2, c.payload_output}, c.id)
    /\ UNCHANGED <<th, lock, receive_cb, nreq>>

\* ------------------------------------------------- fcs_request_service
MyId(t) == [owner |-> t, n |-> th[t].n, phase |-> th[t].phase]

\* mutex_lock(&priv->lock); reinit_completion(&priv->completion);
fcs_request_service_lock(t) ==
  /\ Quiet
  /\ th[t].pc = "lock"
  /\ lock = 0
  /\ lock' = t
  /\ completion' = <<>>
  /\ th' = [th EXCEPT ![t].pc = "send"]
  /\ UNCHANGED <<receive_cb, priv, chan, heap, nreq>>

\* A send that goes on to the wait whether or not the channel took the
\* command.
fcs_request_service_send_then_wait(t) ==
  /\ Quiet
  /\ th[t].pc = "send"
  /\ \/ /\ chan' = chan \cup
                    {[id |-> MyId(t), command |-> th[t].msg.command,
                      payload |-> th[t].msg.payload,
                      payload_length |-> th[t].msg.payload_length,
                      payload_output |-> th[t].msg.payload_output]}
        /\ th' = [th EXCEPT ![t].pc = "wait", ![t].sent = @ + 1]
     \/ /\ chan' = chan
        /\ th' = [th EXCEPT ![t].pc = "wait"]
  /\ UNCHANGED <<lock, completion, receive_cb, priv, heap, nreq>>

\* ret = stratix10_svc_send(priv->chan, p_msg); if (ret) return -EINVAL;
fcs_request_service_send(t) ==
  /\ Quiet
  /\ th[t].pc = "send"
  /\ \/ /\ chan' = chan \cup
                    {[id |-> MyId(t), command |-> th[t].msg.command,
                      payload |-> th[t].msg.payload,
                      payload_length |-> th[t].msg.payload_length,
                      payload_output |-> th[t].msg.payload_output]}
        /\ th' = [th EXCEPT ![t].pc = "wait", ![t].sent = @ + 1]
     \/ /\ chan' = chan
        /\ th' = [th EXCEPT ![t].pc = "after", ![t].ret = -EINVAL,
                            ![t].wake = "rejected"]
  /\ UNCHANGED <<lock, completion, receive_cb, priv, heap, nreq>>

\* wait_for_completion_timeout(); mutex_unlock(&priv->lock); return ret;
fcs_request_service_wait(t) ==
  /\ Quiet
  /\ th[t].pc = "wait"
  /\ IF completion # <<>>
     THEN /\ completion' = Tail(completion)
          /\ th' = [th EXCEPT ![t].pc = "after", ![t].ret = 0,
                      ![t].wake = IF Head(completion) = MyId(t)
                                  THEN "own" ELSE "stale"]
     ELSE /\ completion' = completion
          /\ th' = [th EXCEPT ![t].pc = "after", ![t].ret = -ETIMEDOUT,
                              ![t].wake = "timeout"]
  /\ lock' = 0
  /\ UNCHANGED <<receive_cb, priv, chan, heap, nreq>>

\* ------------------------------------------------------------ fcs_ioctl
Cmds ==
  { "INTEL_FCS_DEV_VALIDATION_REQUEST", "INTEL_FCS_DEV_SEND_CERTIFICATE",
    "INTEL_FCS_DEV_COUNTER_SET_PREAUTHORIZED", "INTEL_FCS_DEV_RANDOM_NUMBER_GEN",
    "INTEL_FCS_DEV_GET_PROVISION_DATA", "INTEL_FCS_DEV_DATA_ENCRYPTION",
    "INTEL_FCS_DEV_DATA_DECRYPTION", "INTEL_FCS_DEV_PSGSIGMA_TEARDOWN",
    "INTEL_FCS_DEV_CHIP_ID", "INTEL_FCS_DEV_ATTESTATION_SUBKEY",
    "INTEL_FCS_DEV_ATTESTATION_MEASUREMENT",
    "INTEL_FCS_DEV_ATTESTATION_GET_CERTIFICATE",
    "INTEL_FCS_DEV_ATTESTATION_CERTIFICATE_RELOAD",
    "INTEL_FCS_DEV_GET_ROM_PATCH_SHA384" }

\* The commands whose calls are run concurrently with one another: one per
\* callback shape, one- and two-phase.
ConcurrentCmds ==
  { "INTEL_FCS_DEV_VALIDATION_REQUEST", "INTEL_FCS_DEV_RANDOM_NUMBER_GEN",
    "INTEL_FCS_DEV_CHIP_ID", "INTEL_FCS_DEV_ATTESTATION_SUBKEY" }

\* Caller t may enter fcs_ioctl with cmd.  Callers are interchangeable, so
\* they are numbered in the order of their first call, and a further caller
\* is taken only while every earlier one is inside a call.  Every command
\* is run after every other; ConcurrentCmds are run alongside one another.
CanEnter(t, cmd) ==
  /\ Quiet
  /\ th[t].pc = "idle"
  /\ nreq < MaxReqs
  /\ \A u \in 1..(t - 1) :
       th[u].pc # "idle" /\ th[u].cmd \in ConcurrentCmds
  /\ t > 1 => cmd \in ConcurrentCmds

\* The locals of a call of cmd once data has been copied in.
Entered(cmd, us) ==
  [IdleLocals EXCEPT !.pc = "run", !.cmd = cmd, !.n = nreq + 1,
                     !.phase = 1, !.data.status = us,
                     !.solo = \A u \in Procs : th[u].pc = "idle"]

\* The position of caller t after fcs_request_service returned in `phase`.
After(t, cmd, phase) ==
  Quiet /\ th[t].pc = "after" /\ th[t].cmd = cmd /\ th[t].phase = phase

\* data->status = priv->status
StatusRead(l) ==
  [l EXCEPT !.data.status = priv.status, !.src = priv.wstatus, !.reads = TRUE]

\* A dereference of priv->kbuf by caller t: "ok" when the buffer is allocated
\* and the pointer was stored by a callback of t's own request, "foreign"
\* when another request's callback stored it, "dangling" when the buffer is
\* not allocated (freed, or never set).
DerefIn(t, h) ==
  IF priv.kbuf \notin DOMAIN h THEN "dangling"
  ELSE IF priv.wkbuf.owner = t /\ priv.wkbuf.n = th[t].n THEN "ok"
  ELSE "foreign"

Deref(t) == DerefIn(t, heap)

\* A copy of n bytes out of priv->kbuf: nothing is read when n is 0.
Copied(t, n) == IF n = 0 THEN "none" ELSE Deref(t)

\* What a read through priv->kbuf yields: the writer of the buffer's
\* content, or anything when the pointer is dangling.
KbufContent ==
  IF priv.kbuf \in DOMAIN heap
  THEN {heap[priv.kbuf].by}
  ELSE {NoId} \cup {heap[b].by : b \in DOMAIN heap}

\* fcs_ioctl returns: its locals are gone.
fcs_ioctl_return(t) ==
  /\ th[t].pc = "return"
  /\ th' = [th EXCEPT ![t] = IdleLocals]
  /\ UNCHANGED <<lock, completion, receive_cb, priv, chan, heap, nreq>>

\* devm_kzalloc of data or msg fails.
fcs_ioctl_nomem(t) ==
  /\ nreq' = nreq + 1
  /\ \E cmd \in Cmds :
       /\ CanEnter(t, cmd)
       /\ th' = [th EXCEPT ![t] = [IdleLocals EXCEPT !.pc = "return",
                                  !.cmd = cmd, !.n = nreq + 1, !.ret = -ENOMEM]]
  /\ UNCHANGED <<lock, completion, receive_cb, priv, chan, heap>>

\* copy_from_user(data, arg, sizeof(*data)) fails.
fcs_ioctl_copy_from_user_fault(t) ==
  /\ nreq' = nreq + 1
  /\ \E cmd \in Cmds \ {"INTEL_FCS_DEV_CHIP_ID"} :
       /\ CanEnter(t, cmd)
       /\ th' = [th EXCEPT ![t] = [IdleLocals EXCEPT !.pc = "return",
                                  !.cmd = cmd, !.n = nreq + 1, !.ret = -EFAULT]]
  /\ UNCHANGED <<lock, completion, receive_cb, priv, chan, heap>>


\* The buffer the call entered by this step receives in local `slot`.
NewBuf(t, slot) == [owner |-> t, n |-> nreq + 1, slot |-> slot]

\* The capacity of the buffer a pointer refers to (0 when it refers to none).
Cap(b) == IF b \in DOMAIN heap THEN heap[b].cap ELSE 0

\* Caller-supplied values, by the check of the driver they meet.
FwSize == {1024}
CertSize == {2048, 1048576}
ProvisionSize == {16, 64}
EncSrcSize == {DEC_MIN_SZ - 1, DEC_MIN_SZ, DEC_MAX_SZ + 1}
EncDstSize == {ENC_MIN_SZ - 1, ENC_MAX_SZ, ENC_MAX_SZ + 1}
DecSrcSize ==
  {DEC_MIN_SZ - 1, DEC_MIN_SZ, ENC_MIN_SZ - 1, ENC_MIN_SZ, ENC_MAX_SZ + 1}
DecDstSize == {DEC_MIN_SZ - 1, DEC_MAX_SZ, DEC_MAX_SZ + 1}
SubkeyCmdSize == {SUBKEY_CMD_MAX_SZ, SUBKEY_CMD_MAX_SZ + 1}
SubkeyRspSize == {SUBKEY_RSP_MAX_SZ, SUBKEY_RSP_MAX_SZ + 1}
MeasurementCmdSize == {MEASUREMENT_CMD_MAX_SZ, MEASUREMENT_CMD_MAX_SZ + 1}
MeasurementRspSize == {MEASUREMENT_RSP_MAX_SZ, MEASUREMENT_RSP_MAX_SZ + 1}
CertificateRspSize == {CERTIFICATE_RSP_MAX_SZ, CERTIFICATE_RSP_MAX_SZ + 1}
SessionId == {SIGMA_SESSION_ID_ONE, SIGMA_UNKNOWN_SESSION, 2}

\* ---- status-only commands
\* if (ret) return -EFAULT; data->status = priv->status; copy_to_user(...)
StatusOnlyEnd(t) ==
  LET l == th[t]
  IN  IF l.ret # 0
      THEN Returns(t, Frame(l, heap), -EFAULT)
      ELSE \E copy \in BOOLEAN :
             Returns(t, Frame(StatusRead(l), heap),
                     IF copy THEN l.ret ELSE -EFAULT)

\* case INTEL_FCS_DEV_COUNTER_SET_PREAUTHORIZED
CounterSetPreauthorizedBegin(t) ==
  /\ CanEnter(t, "INTEL_FCS_DEV_COUNTER_SET_PREAUTHORIZED")
  /\ nreq' = nreq + 1
  /\ \E us \in UserStatus :
       LET l0 == Entered("INTEL_FCS_DEV_COUNTER_SET_PREAUTHORIZED", us)
       IN  Requests(t, Frame([l0 EXCEPT !.msg.command =
                                "COMMAND_FCS_COUNTER_SET_PREAUTHORIZED"], heap),
                    "fcs_vab_callback", 1)
  /\ UNCHANGED <<lock, completion, priv, chan>>

CounterSetPreauthorizedEnd(t) ==
  /\ After(t, "INTEL_FCS_DEV_COUNTER_SET_PREAUTHORIZED", 1)
  /\ StatusOnlyEnd(t)
  /\ UNCHANGED <<lock, completion, priv, chan, nreq>>

\* case INTEL_FCS_DEV_PSGSIGMA_TEARDOWN
PsgsigmaTeardownBegin(t) ==
  /\ CanEnter(t, "INTEL_FCS_DEV_PSGSIGMA_TEARDOWN")
  /\ nreq' = nreq + 1
  /\ \E us \in UserStatus, sid \in SessionId :
       LET l0 == Entered("INTEL_FCS_DEV_PSGSIGMA_TEARDOWN", us)
       IN  IF sid # SIGMA_SESSION_ID_ONE /\ sid # SIGMA_UNKNOWN_SESSION
           THEN Returns(t, Frame(l0, heap), -EFAULT)
           ELSE Requests(t, Frame([l0 EXCEPT !.msg.command =
                                     "COMMAND_FCS_PSGSIGMA_TEARDOWN"], heap),
                         "fcs_vab_callback", 1)
  /\ UNCHANGED <<lock, completion, priv, chan>>

PsgsigmaTeardownEnd(t) ==
  /\ After(t, "INTEL_FCS_DEV_PSGSIGMA_TEARDOWN", 1)
  /\ StatusOnlyEnd(t)
  /\ UNCHANGED <<lock, completion, priv, chan, nreq>>

\* case INTEL_FCS_DEV_ATTESTATION_CERTIFICATE_RELOAD
AttestationCertificateReloadBegin(t) ==
  /\ CanEnter(t, "INTEL_FCS_DEV_ATTESTATION_CERTIFICATE_RELOAD")
  /\ nreq' = nreq + 1
  /\ \E us \in UserStatus :
       LET l0 == Entered("INTEL_FCS_DEV_ATTESTATION_CERTIFICATE_RELOAD", us)
       IN  Requests(t, Frame([l0 EXCEPT !.msg.command =
                                "COMMAND_FCS_ATTESTATION_CERTIFICATE_RELOAD"],
                             heap),
                    "fcs_vab_callback", 1)
  /\ UNCHANGED <<lock, completion, priv, chan>>

AttestationCertificateReloadEnd(t) ==
  /\ After(t, "INTEL_FCS_DEV_ATTESTATION_CERTIFICATE_RELOAD", 1)
  /\ StatusOnlyEnd(t)
  /\ UNCHANGED <<lock, completion, priv, chan, nreq>>

\* case INTEL_FCS_DEV_CHIP_ID: data is not copied in, so data->status starts
\* as devm_kzalloc left it.
ChipIdBegin(t) ==
  /\ CanEnter(t, "INTEL_FCS_DEV_CHIP_ID")
  /\ nreq' = nreq + 1
  /\ LET l0 == Entered("INTEL_FCS_DEV_CHIP_ID", 0)
     IN  Requests(t, Frame([l0 EXCEPT !.msg.command = "COMMAND_FCS_GET_CHIP_ID"],
                           heap),
                  "fcs_chipid_callback", 1)
  /\ UNCHANGED <<lock, completion, priv, chan>>

ChipIdEnd(t) ==
  /\ After(t, "INTEL_FCS_DEV_CHIP_ID", 1)
  /\ LET l == th[t]
     IN  IF l.ret # 0
         THEN Returns(t, Frame(l, heap), -EFAULT)
         ELSE \E copy \in BOOLEAN :
                Returns(t, Frame([StatusRead(l) EXCEPT
                                    !.data.cid_low = priv.cid_low,
                                    !.data.cid_high = priv.cid_high], heap),
                        IF copy THEN l.ret ELSE -EFAULT)
  /\ UNCHANGED <<lock, completion, priv, chan, nreq>>

\* ---- single-phase commands with a result buffer
\* case INTEL_FCS_DEV_RANDOM_NUMBER_GEN, up to fcs_request_service
RandomNumberGenBegin(t) ==
  /\ CanEnter(t, "INTEL_FCS_DEV_RANDOM_NUMBER_GEN")
  /\ nreq' = nreq + 1
  /\ \E us \in UserStatus, alloc \in BOOLEAN :
       LET l0 == Entered("INTEL_FCS_DEV_RANDOM_NUMBER_GEN", us)
           s_buf == NewBuf(t, "s_buf")
           f1 == Allocated(Frame(l0, heap), s_buf, RANDOM_NUMBER_SIZE)
       IN  IF ~alloc
           THEN Returns(t, Frame(l0, heap), -ENOMEM)
           ELSE Requests(t, Frame(
                     [f1.l EXCEPT !.s_buf = s_buf,
                        !.msg.command = "COMMAND_FCS_RANDOM_NUMBER_GEN",
                        !.msg.payload = s_buf,
                        !.msg.payload_length = RANDOM_NUMBER_SIZE], f1.h),
                  "fcs_data_callback", 1)
  /\ UNCHANGED <<lock, completion, priv, chan>>

\* case INTEL_FCS_DEV_RANDOM_NUMBER_GEN, after fcs_request_service
RandomNumberGenEnd(t) ==
  /\ After(t, "INTEL_FCS_DEV_RANDOM_NUMBER_GEN", 1)
  /\ LET l == th[t]
     IN  IF l.ret = 0 /\ priv.status = 0 /\ priv.kbuf = NULL
         THEN Returns(t, fcs_close_services(
                           Frame([l EXCEPT !.reads = TRUE], heap),
                           l.s_buf, NULL), -EFAULT)
         ELSE \E w \in KbufContent, copy \in BOOLEAN :
                LET l1 == IF l.ret = 0 /\ priv.status = 0
                          THEN [StatusRead(l) EXCEPT !.data.payload = w,
                                  !.deref = Deref(t),
                                  !.copy = [len |-> RANDOM_NUMBER_SIZE,
                                            cap |-> Cap(priv.kbuf)]]
                          ELSE StatusRead(l)
                    f1 == Frame(l1, heap)
                    f2 == IF copy THEN f1
                          ELSE fcs_close_services(f1, l.s_buf, NULL)
                IN  Returns(t, fcs_close_services(f2, l.s_buf, NULL),
                            IF copy THEN l.ret ELSE -EFAULT)
  /\ UNCHANGED <<lock, completion, priv, chan, nreq>>

\* case INTEL_FCS_DEV_GET_PROVISION_DATA, up to fcs_request_service
GetProvisionDataBegin(t) ==
  /\ CanEnter(t, "INTEL_FCS_DEV_GET_PROVISION_DATA")
  /\ nreq' = nreq + 1
  /\ \E us \in UserStatus, size \in ProvisionSize, alloc \in BOOLEAN :
       LET l0 == Entered("INTEL_FCS_DEV_GET_PROVISION_DATA", us)
           s_buf == NewBuf(t, "s_buf")
           f1 == Allocated(Frame(l0, heap), s_buf, size)
       IN  IF ~alloc
           THEN Returns(t, Frame(l0, heap), -ENOMEM)
           ELSE Requests(t, Frame(
                     [f1.l EXCEPT !.s_buf = s_buf,
                        !.msg.command = "COMMAND_FCS_GET_PROVISION_DATA",
                        !.msg.payload = s_buf,
                        !.msg.payload_length = size], f1.h),
                  "fcs_data_callback", 1)
  /\ UNCHANGED <<lock, completion, priv, chan>>

\* case INTEL_FCS_DEV_GET_PROVISION_DATA, after fcs_request_service
GetProvisionDataEnd(t) ==
  /\ After(t, "INTEL_FCS_DEV_GET_PROVISION_DATA", 1)
  /\ LET l == th[t]
         close(f) == fcs_close_services(f, l.s_buf, NULL)
     IN  IF l.ret = 0 /\ priv.status = 0
         THEN IF priv.kbuf = NULL
              THEN Returns(t, close(Frame([l EXCEPT !.reads = TRUE], heap)),
                           -EFAULT)
              ELSE \E w \in KbufContent, out \in BOOLEAN, copy \in BOOLEAN :
                     LET l1 == [l EXCEPT !.reads = TRUE,
                                  !.data.size = priv.size,
                                  !.data.payload = w,
                                  !.deref = Copied(t, priv.size),
                                  !.copy = [len |-> priv.size,
                                            cap |-> Cap(priv.kbuf)]]
                         l2 == [l1 EXCEPT !.data.status = 0]
                     IN  IF ~out
                         THEN Returns(t, close(Frame(l1, heap)), -EFAULT)
                         ELSE IF ~copy
                         THEN Returns(t, close(Frame(l2, heap)), -EFAULT)
                         ELSE Returns(t, close(Frame(l2, heap)), l.ret)
         ELSE \E copy \in BOOLEAN :
                Returns(t, close(Frame([StatusRead(l) EXCEPT !.data.size = 0],
                                       heap)),
                        IF copy THEN l.ret ELSE -EFAULT)
  /\ UNCHANGED <<lock, completion, priv, chan, nreq>>

\* case INTEL_FCS_DEV_GET_ROM_PATCH_SHA384, up to fcs_request_service
GetRomPatchSha384Begin(t) ==
  /\ CanEnter(t, "INTEL_FCS_DEV_GET_ROM_PATCH_SHA384")
  /\ nreq' = nreq + 1
  /\ \E us \in UserStatus, alloc \in BOOLEAN :
       LET l0 == Entered("INTEL_FCS_DEV_GET_ROM_PATCH_SHA384", us)
           s_buf == NewBuf(t, "s_buf")
           f1 == Allocated(Frame(l0, heap), s_buf, SHA384_SIZE)
       IN  IF ~alloc
           THEN Returns(t, Frame(l0, heap), -ENOMEM)
           ELSE Requests(t, Frame(
                     [f1.l EXCEPT !.s_buf = s_buf,
                        !.msg.command = "COMMAND_FCS_GET_ROM_PATCH_SHA384",
                        !.msg.payload = s_buf,
                        !.msg.payload_length = SHA384_SIZE], f1.h),
                  "fcs_data_callback", 1)
  /\ UNCHANGED <<lock, completion, priv, chan>>

\* case INTEL_FCS_DEV_GET_ROM_PATCH_SHA384, after fcs_request_service
GetRomPatchSha384End(t) ==
  /\ After(t, "INTEL_FCS_DEV_GET_ROM_PATCH_SHA384", 1)
  /\ LET l == th[t]
         close(f) == fcs_close_services(f, l.s_buf, NULL)
     IN  IF l.ret = 0 /\ priv.status = 0 /\ priv.kbuf = NULL
         THEN Returns(t, close(Frame([l EXCEPT !.reads = TRUE], heap)), -EFAULT)
         ELSE \E w \in KbufContent, copy \in BOOLEAN :
                LET ok == l.ret = 0 /\ priv.status = 0
                    long == ok /\ priv.size > SHA384_SIZE
                    f0 == IF long THEN close(Frame(l, heap))
                          ELSE Frame(l, heap)
                    l1 == IF ok
                          THEN [StatusRead(f0.l) EXCEPT !.data.payload = w,
                                  !.deref = DerefIn(t, f0.h),
                                  !.copy = [len |-> SHA384_SIZE,
                                            cap |-> Cap(priv.kbuf)]]
                          ELSE StatusRead(f0.l)
                    f1 == Frame(l1, f0.h)
                    r1 == IF long THEN -EFAULT ELSE l.ret
                    f2 == IF copy THEN f1 ELSE close(f1)
                IN  Returns(t, close(f2), IF copy THEN r1 ELSE -EFAULT)
  /\ UNCHANGED <<lock, completion, priv, chan, nreq>>


\* ---- two-phase commands
\* if (copy_to_user(arg, data)) { fcs_close_services(s_buf, NULL);
\*   ret = -EFAULT; } fcs_close_services(s_buf, NULL); break;
ValidationRequestOut(t, l) ==
  \E copy \in BOOLEAN :
    LET f1 == Frame(l, heap)
        f2 == IF copy THEN f1 ELSE fcs_close_services(f1, l.s_buf, NULL)
    IN  Returns(t, fcs_close_services(f2, l.s_buf, NULL),
                IF copy THEN l.ret ELSE -EFAULT)

\* case INTEL_FCS_DEV_VALIDATION_REQUEST, up to fcs_request_service
ValidationRequestBegin(t) ==
  /\ CanEnter(t, "INTEL_FCS_DEV_VALIDATION_REQUEST")
  /\ nreq' = nreq + 1
  /\ \E us \in UserStatus, fw \in BOOLEAN, size \in FwSize, alloc \in BOOLEAN :
       LET l0 == Entered("INTEL_FCS_DEV_VALIDATION_REQUEST", us)
           s_buf == NewBuf(t, "s_buf")
           f1 == Allocated(Frame(l0, heap), s_buf, size)
       IN  IF ~fw
           THEN Returns(t, Frame(l0, heap), -EFAULT)
           ELSE IF ~alloc
           THEN Returns(t, Frame(l0, heap), -ENOMEM)
           ELSE Requests(t, Frame(
                     [f1.l EXCEPT !.s_buf = s_buf,
                        !.msg.payload_length = size,
                        !.msg.command = "COMMAND_FCS_REQUEST_SERVICE",
                        !.msg.payload = s_buf], f1.h),
                  "fcs_vab_callback", 1)
  /\ UNCHANGED <<lock, completion, priv, chan>>

\* The validation case sending the poll command whatever the first
\* fcs_request_service returned.
ValidationRequestPhase1Always(t) ==
  /\ After(t, "INTEL_FCS_DEV_VALIDATION_REQUEST", 1)
  /\ Requests(t, Frame([th[t] EXCEPT !.reads = TRUE,
                          !.msg.command = "COMMAND_POLL_SERVICE_STATUS"],
                       heap),
              "fcs_data_callback", 2)
  /\ UNCHANGED <<lock, completion, priv, chan, nreq>>

\* case INTEL_FCS_DEV_VALIDATION_REQUEST, after the first fcs_request_service
ValidationRequestPhase1(t) ==
  /\ After(t, "INTEL_FCS_DEV_VALIDATION_REQUEST", 1)
  /\ LET l == th[t]
     IN  IF l.ret = 0 /\ priv.status = 0
         THEN Requests(t, Frame([l EXCEPT !.reads = TRUE,
                                   !.msg.command = "COMMAND_POLL_SERVICE_STATUS"],
                                heap),
                       "fcs_data_callback", 2)
         ELSE ValidationRequestOut(t, StatusRead(l))
  /\ UNCHANGED <<lock, completion, priv, chan, nreq>>

\* case INTEL_FCS_DEV_VALIDATION_REQUEST, after the poll
ValidationRequestPhase2(t) ==
  /\ After(t, "INTEL_FCS_DEV_VALIDATION_REQUEST", 2)
  /\ LET l == th[t]
     IN  IF l.ret = 0 /\ priv.status = 0
         THEN ValidationRequestOut(t, [l EXCEPT !.reads = TRUE,
                                         !.data.status = 0,
                                         !.src = priv.wstatus])
         ELSE ValidationRequestOut(t, StatusRead(l))
  /\ UNCHANGED <<lock, completion, priv, chan, nreq>>

\* if (copy_to_user(arg, data)) { fcs_close_services(s_buf, NULL);
\*   ret = -EFAULT; } fcs_close_services(s_buf, ps_buf); break;
SendCertificateOut(t, l) ==
  \E copy \in BOOLEAN :
    LET f1 == Frame(l, heap)
        f2 == IF copy THEN f1 ELSE fcs_close_services(f1, l.s_buf, NULL)
    IN  Returns(t, fcs_close_services(f2, l.s_buf, l.ps_buf),
                IF copy THEN l.ret ELSE -EFAULT)

\* case INTEL_FCS_DEV_SEND_CERTIFICATE, up to fcs_request_service
SendCertificateBegin(t) ==
  /\ CanEnter(t, "INTEL_FCS_DEV_SEND_CERTIFICATE")
  /\ nreq' = nreq + 1
  /\ \E us \in UserStatus, size \in CertSize,
        alloc1 \in BOOLEAN, alloc2 \in BOOLEAN, user \in BOOLEAN :
       LET l0 == Entered("INTEL_FCS_DEV_SEND_CERTIFICATE", us)
           datasz == size + TEST_WORD_SIZE
           s_buf == NewBuf(t, "s_buf")
           ps_buf == NewBuf(t, "ps_buf")
           f1 == Allocated(Frame(l0, heap), s_buf, datasz)
           f2 == Allocated(f1, ps_buf, PS_BUF_SIZE)
           l2 == [f2.l EXCEPT !.s_buf = s_buf, !.ps_buf = ps_buf]
       IN  IF ~alloc1
           THEN Returns(t, Frame(l0, heap), -ENOMEM)
           ELSE IF ~alloc2
           THEN Returns(t, stratix10_svc_free_memory(f1, s_buf), -ENOMEM)
           ELSE IF ~user
           THEN Returns(t, fcs_close_services(Frame(l2, f2.h), s_buf, ps_buf),
                        -EFAULT)
           ELSE Requests(t, Frame(
                     [l2 EXCEPT !.msg.payload_length = datasz,
                        !.msg.command = "COMMAND_FCS_SEND_CERTIFICATE",
                        !.msg.payload = s_buf], f2.h),
                  "fcs_vab_callback", 1)
  /\ UNCHANGED <<lock, completion, priv, chan>>

\* case INTEL_FCS_DEV_SEND_CERTIFICATE, after the first fcs_request_service
SendCertificatePhase1(t) ==
  /\ After(t, "INTEL_FCS_DEV_SEND_CERTIFICATE", 1)
  /\ LET l == th[t]
     IN  IF l.ret = 0 /\ priv.status = 0
         THEN Requests(t, Frame([l EXCEPT !.reads = TRUE,
                                   !.msg.payload = l.ps_buf,
                                   !.msg.payload_length = PS_BUF_SIZE,
                                   !.msg.command = "COMMAND_POLL_SERVICE_STATUS"],
                                heap),
                       "fcs_data_callback", 2)
         ELSE SendCertificateOut(t, StatusRead(l))
  /\ UNCHANGED <<lock, completion, priv, chan, nreq>>

\* case INTEL_FCS_DEV_SEND_CERTIFICATE, after the poll
SendCertificatePhase2(t) ==
  /\ After(t, "INTEL_FCS_DEV_SEND_CERTIFICATE", 2)
  /\ LET l == th[t]
     IN  IF l.ret = 0 /\ priv.status = 0
         THEN SendCertificateOut(t, [l EXCEPT !.reads = TRUE,
                                       !.data.status = 0,
                                       !.src = priv.wstatus])
         ELSE IF priv.kbuf # NULL
         THEN \E w \in BufWord :
                SendCertificateOut(t, [l EXCEPT !.reads = TRUE,
                                         !.data.c_status = w,
                                         !.deref = Deref(t)])
         ELSE SendCertificateOut(t, [l EXCEPT !.reads = TRUE,
                                       !.data.c_status = INVALID_STATUS])
  /\ UNCHANGED <<lock, completion, priv, chan, nreq>>

\* fcs_close_services(ps_buf, NULL); fcs_close_services(s_buf, d_buf);
CryptClose(f) ==
  fcs_close_services(fcs_close_services(f, f.l.ps_buf, NULL),
                     f.l.s_buf, f.l.d_buf)

\* if (copy_to_user(arg, data)) { both closes; ret = -EFAULT; }
\* both closes; break;
CryptOut(t, l) ==
  \E copy \in BOOLEAN :
    LET f1 == Frame(l, heap)
        f2 == IF copy THEN f1 ELSE CryptClose(f1)
    IN  Returns(t, CryptClose(f2), IF copy THEN l.ret ELSE -EFAULT)

\* The part the encryption and decryption cases share, up to
\* fcs_request_service: the size checks against [smin, smax] and
\* [dmin, dmax], the three allocations, the copy of the source.
CryptBegin(t, cmd, command, src_size, dst_size, smin, smax, dmin, dmax, scap, dcap, efault, us, alloc1, alloc2, alloc3, user) ==
  LET l0 == [Entered(cmd, us) EXCEPT
               !.arg = [src_size |-> src_size, dst_size |-> dst_size]]
      s_buf == NewBuf(t, "s_buf")
      d_buf == NewBuf(t, "d_buf")
      ps_buf == NewBuf(t, "ps_buf")
      f1 == Allocated(Frame(l0, heap), s_buf, scap)
      f2 == Allocated(f1, d_buf, dcap)
      f3 == Allocated(f2, ps_buf, PS_BUF_SIZE)
      l3 == [f3.l EXCEPT !.s_buf = s_buf, !.d_buf = d_buf, !.ps_buf = ps_buf]
  IN  IF src_size < smin \/ src_size > smax
      THEN Returns(t, Frame(l0, heap), -EFAULT)
      ELSE IF dst_size < dmin \/ dst_size > dmax
      THEN Returns(t, Frame(l0, heap), -EFAULT)
      ELSE IF ~alloc1
      THEN Returns(t, Frame(l0, heap), -ENOMEM)
      ELSE IF ~alloc2
      THEN Returns(t, stratix10_svc_free_memory(f1, s_buf), -ENOMEM)
      ELSE IF ~alloc3
      THEN Returns(t, fcs_close_services(f2, s_buf, d_buf), -ENOMEM)
      ELSE IF ~user
      THEN Returns(t, CryptClose(Frame(l3, f3.h)), efault)
      ELSE Requests(t, Frame(
                [l3 EXCEPT !.msg.command = command,
                   !.msg.payload = s_buf,
                   !.msg.payload_length = src_size,
                   !.msg.payload_output = d_buf,
                   !.msg.payload_length_output = dst_size], f3.h),
             "fcs_vab_callback", 1)

\* The part the two cases share after the first fcs_request_service.
CryptPhase1(t) ==
  LET l == th[t]
  IN  IF l.ret = 0 /\ priv.status = 0
      THEN Requests(t, Frame([l EXCEPT !.reads = TRUE,
                                !.msg.payload = l.ps_buf,
                                !.msg.payload_length = PS_BUF_SIZE,
                                !.msg.command = "COMMAND_POLL_SERVICE_STATUS"],
                             heap),
                    "fcs_data_callback", 2)
      ELSE CryptOut(t, [StatusRead(l) EXCEPT !.data.size = 0])

\* The part the two cases share after the poll.
CryptPhase2(t) ==
  LET l == th[t]
  IN  IF l.ret = 0 /\ priv.status = 0
      THEN IF priv.kbuf = NULL
           THEN Returns(t, CryptClose(Frame([l EXCEPT !.reads = TRUE], heap)),
                        -EFAULT)
           ELSE \E buf_sz \in BufWord, w \in {heap[l.d_buf].by},
                   out \in BOOLEAN :
                  LET l1 == [l EXCEPT !.reads = TRUE,
                               !.deref = Deref(t),
                               !.data.size = buf_sz,
                               !.data.status = 0,
                               !.src = priv.wstatus,
                               !.data.payload = w,
                               !.copy = [len |-> buf_sz, cap |-> Cap(l.d_buf)]]
                  IN  IF ~out
                      THEN Returns(t, CryptClose(Frame(l1, heap)), -EFAULT)
                      ELSE CryptOut(t, l1)
      ELSE CryptOut(t, [StatusRead(l) EXCEPT !.data.size = 0])

\* case INTEL_FCS_DEV_DATA_ENCRYPTION
DataEncryptionBegin(t) ==
  /\ CanEnter(t, "INTEL_FCS_DEV_DATA_ENCRYPTION")
  /\ nreq' = nreq + 1
  /\ \E us \in UserStatus, src_size \in EncSrcSize, dst_size \in EncDstSize,
        alloc1 \in BOOLEAN, alloc2 \in BOOLEAN, alloc3 \in BOOLEAN,
        user \in BOOLEAN :
       CryptBegin(t, "INTEL_FCS_DEV_DATA_ENCRYPTION",
                  "COMMAND_FCS_DATA_ENCRYPTION", src_size, dst_size,
                  DEC_MIN_SZ, DEC_MAX_SZ, ENC_MIN_SZ, ENC_MAX_SZ,
                  DEC_MAX_SZ, ENC_MAX_SZ, -ENOMEM,
                  us, alloc1, alloc2, alloc3, user)
  /\ UNCHANGED <<lock, completion, priv, chan>>

DataEncryptionPhase1(t) ==
  /\ After(t, "INTEL_FCS_DEV_DATA_ENCRYPTION", 1)
  /\ CryptPhase1(t)
  /\ UNCHANGED <<lock, completion, priv, chan, nreq>>

DataEncryptionPhase2(t) ==
  /\ After(t, "INTEL_FCS_DEV_DATA_ENCRYPTION", 2)
  /\ CryptPhase2(t)
  /\ UNCHANGED <<lock, completion, priv, chan, nreq>>

\* The decryption case with the two pairs of bounds exchanged: the source
\* checked against the plaintext bounds, the destination against the
\* ciphertext bounds.
DataDecryptionBeginExchanged(t) ==
  /\ CanEnter(t, "INTEL_FCS_DEV_DATA_DECRYPTION")
  /\ nreq' = nreq + 1
  /\ \E us \in UserStatus, src_size \in DecSrcSize, dst_size \in DecDstSize,
        alloc1 \in BOOLEAN, alloc2 \in BOOLEAN, alloc3 \in BOOLEAN,
        user \in BOOLEAN :
       CryptBegin(t, "INTEL_FCS_DEV_DATA_DECRYPTION",
                  "COMMAND_FCS_DATA_DECRYPTION", src_size, dst_size,
                  DEC_MIN_SZ, DEC_MAX_SZ, DEC_MIN_SZ, DEC_MAX_SZ,
                  ENC_MAX_SZ, DEC_MAX_SZ, -EFAULT,
                  us, alloc1, alloc2, alloc3, user)
  /\ UNCHANGED <<lock, completion, priv, chan>>

\* case INTEL_FCS_DEV_DATA_DECRYPTION
DataDecryptionBegin(t) ==
  /\ CanEnter(t, "INTEL_FCS_DEV_DATA_DECRYPTION")
  /\ nreq' = nreq + 1
  /\ \E us \in UserStatus, src_size \in DecSrcSize, dst_size \in DecDstSize,
        alloc1 \in BOOLEAN, alloc2 \in BOOLEAN, alloc3 \in BOOLEAN,
        user \in BOOLEAN :
       CryptBegin(t, "INTEL_FCS_DEV_DATA_DECRYPTION",
                  "COMMAND_FCS_DATA_DECRYPTION", src_size, dst_size,
                  ENC_MIN_SZ, ENC_MAX_SZ, DEC_MIN_SZ, DEC_MAX_SZ,
                  ENC_MAX_SZ, DEC_MAX_SZ, -EFAULT,
                  us, alloc1, alloc2, alloc3, user)
  /\ UNCHANGED <<lock, completion, priv, chan>>

DataDecryptionPhase1(t) ==
  /\ After(t, "INTEL_FCS_DEV_DATA_DECRYPTION", 1)
  /\ CryptPhase1(t)
  /\ UNCHANGED <<lock, completion, priv, chan, nreq>>

DataDecryptionPhase2(t) ==
  /\ After(t, "INTEL_FCS_DEV_DATA_DECRYPTION", 2)
  /\ CryptPhase2(t)
  /\ UNCHANGED <<lock, completion, priv, chan, nreq>>


\* ---- attestation commands
\* The shared part with the check of the command size left out.
AttestationBeginRspOnly(t, cmd, command, cmd_data_sz, rsp_data_sz, cmd_max, rsp_max, us, alloc1, alloc2) ==
  LET l0 == [Entered(cmd, us) EXCEPT
               !.arg = [src_size |-> cmd_data_sz, dst_size |-> rsp_data_sz]]
      datasz == cmd_data_sz + RESV_WORD_SIZE
      s_buf == NewBuf(t, "s_buf")
      d_buf == NewBuf(t, "d_buf")
      f1 == Allocated(Frame(l0, heap), s_buf, cmd_max + RESV_WORD_SIZE)
      f2 == Allocated(f1, d_buf, rsp_max)
  IN  IF rsp_data_sz > rsp_max
      THEN Returns(t, Frame(l0, heap), -EFAULT)
      ELSE IF ~alloc1
      THEN Returns(t, Frame(l0, heap), -ENOMEM)
      ELSE IF ~alloc2
      THEN Returns(t, Frame([f1.l EXCEPT !.s_buf = s_buf], f1.h), -ENOMEM)
      ELSE Requests(t, Frame(
                [f2.l EXCEPT !.s_buf = s_buf, !.d_buf = d_buf,
                   !.msg.command = command,
                   !.msg.payload = s_buf,
                   !.msg.payload_length = datasz,
                   !.msg.payload_output = d_buf,
                   !.msg.payload_length_output = rsp_max], f2.h),
             "fcs_attestation_callback", 1)

\* The part the sub-key and measurement cases share, up to
\* fcs_request_service: the two size checks, the two allocations (the
\* second failing returns with the first still allocated), the message.
AttestationBegin(t, cmd, command, cmd_data_sz, rsp_data_sz, cmd_max, rsp_max, us, alloc1, alloc2) ==
  LET l0 == [Entered(cmd, us) EXCEPT
               !.arg = [src_size |-> cmd_data_sz, dst_size |-> rsp_data_sz]]
      datasz == cmd_data_sz + RESV_WORD_SIZE
      s_buf == NewBuf(t, "s_buf")
      d_buf == NewBuf(t, "d_buf")
      f1 == Allocated(Frame(l0, heap), s_buf, cmd_max + RESV_WORD_SIZE)
      f2 == Allocated(f1, d_buf, rsp_max)
  IN  IF cmd_data_sz > cmd_max
      THEN Returns(t, Frame(l0, heap), -EFAULT)
      ELSE IF rsp_data_sz > rsp_max
      THEN Returns(t, Frame(l0, heap), -EFAULT)
      ELSE IF ~alloc1
      THEN Returns(t, Frame(l0, heap), -ENOMEM)
      ELSE IF ~alloc2
      THEN Returns(t, Frame([f1.l EXCEPT !.s_buf = s_buf], f1.h), -ENOMEM)
      ELSE Requests(t, Frame(
                [f2.l EXCEPT !.s_buf = s_buf, !.d_buf = d_buf,
                   !.msg.command = command,
                   !.msg.payload = s_buf,
                   !.msg.payload_length = datasz,
                   !.msg.payload_output = d_buf,
                   !.msg.payload_length_output = rsp_max], f2.h),
             "fcs_attestation_callback", 1)

\* The part the three cases with a response share after
\* fcs_request_service, up to copy_to_user(arg, data): the locals after
\* the response (or the failure) has been taken over from the record.
AttestationTaken(t, l, w) ==
  IF l.ret = 0 /\ priv.status = 0
  THEN [StatusRead(l) EXCEPT !.data.payload = w,
          !.data.size = priv.size,
          !.deref = Copied(t, priv.size),
          !.copy = [len |-> priv.size, cap |-> Cap(priv.kbuf)]]
  ELSE [StatusRead(l) EXCEPT !.data.size = 0]

\* case INTEL_FCS_DEV_ATTESTATION_SUBKEY
AttestationSubkeyBegin(t) ==
  /\ CanEnter(t, "INTEL_FCS_DEV_ATTESTATION_SUBKEY")
  /\ nreq' = nreq + 1
  /\ \E us \in UserStatus, cmd_data_sz \in SubkeyCmdSize,
        rsp_data_sz \in SubkeyRspSize, alloc1 \in BOOLEAN, alloc2 \in BOOLEAN :
       AttestationBegin(t, "INTEL_FCS_DEV_ATTESTATION_SUBKEY",
                        "COMMAND_FCS_ATTESTATION_SUBKEY",
                        cmd_data_sz, rsp_data_sz,
                        SUBKEY_CMD_MAX_SZ, SUBKEY_RSP_MAX_SZ,
                        us, alloc1, alloc2)
  /\ UNCHANGED <<lock, completion, priv, chan>>

\* copy_to_user failing returns at once, with both buffers allocated.
AttestationSubkeyEnd(t) ==
  /\ After(t, "INTEL_FCS_DEV_ATTESTATION_SUBKEY", 1)
  /\ LET l == th[t]
     IN  IF l.ret = 0 /\ priv.status = 0 /\ priv.size > SUBKEY_RSP_MAX_SZ
         THEN Returns(t, fcs_close_services(
                           Frame([l EXCEPT !.reads = TRUE], heap),
                           l.s_buf, l.d_buf), -EFAULT)
         ELSE \E w \in KbufContent, copy \in BOOLEAN :
                LET l1 == AttestationTaken(t, l, w)
                IN  IF ~copy
                    THEN Returns(t, Frame(l1, heap), -EFAULT)
                    ELSE Returns(t, fcs_close_services(Frame(l1, heap),
                                                       l.s_buf, l.d_buf),
                                 l.ret)
  /\ UNCHANGED <<lock, completion, priv, chan, nreq>>

\* case INTEL_FCS_DEV_ATTESTATION_MEASUREMENT
AttestationMeasurementBegin(t) ==
  /\ CanEnter(t, "INTEL_FCS_DEV_ATTESTATION_MEASUREMENT")
  /\ nreq' = nreq + 1
  /\ \E us \in UserStatus, cmd_data_sz \in MeasurementCmdSize,
        rsp_data_sz \in MeasurementRspSize,
        alloc1 \in BOOLEAN, alloc2 \in BOOLEAN :
       AttestationBegin(t, "INTEL_FCS_DEV_ATTESTATION_MEASUREMENT",
                        "COMMAND_FCS_ATTESTATION_MEASUREMENTS",
                        cmd_data_sz, rsp_data_sz,
                        MEASUREMENT_CMD_MAX_SZ, MEASUREMENT_RSP_MAX_SZ,
                        us, alloc1, alloc2)
  /\ UNCHANGED <<lock, completion, priv, chan>>

AttestationMeasurementEnd(t) ==
  /\ After(t, "INTEL_FCS_DEV_ATTESTATION_MEASUREMENT", 1)
  /\ LET l == th[t]
     IN  IF l.ret = 0 /\ priv.status = 0 /\ priv.size > MEASUREMENT_RSP_MAX_SZ
         THEN Returns(t, fcs_close_services(
                           Frame([l EXCEPT !.reads = TRUE], heap),
                           l.s_buf, l.d_buf), -EFAULT)
         ELSE \E w \in KbufContent, copy \in BOOLEAN :
                Returns(t, fcs_close_services(
                             Frame(AttestationTaken(t, l, w), heap),
                             l.s_buf, l.d_buf),
                        IF copy THEN l.ret ELSE -EFAULT)
  /\ UNCHANGED <<lock, completion, priv, chan, nreq>>

\* case INTEL_FCS_DEV_ATTESTATION_GET_CERTIFICATE
AttestationGetCertificateBegin(t) ==
  /\ CanEnter(t, "INTEL_FCS_DEV_ATTESTATION_GET_CERTIFICATE")
  /\ nreq' = nreq + 1
  /\ \E us \in UserStatus, rsp_data_sz \in CertificateRspSize,
        alloc \in BOOLEAN :
       LET l0 == Entered("INTEL_FCS_DEV_ATTESTATION_GET_CERTIFICATE", us)
           d_buf == NewBuf(t, "d_buf")
           f1 == Allocated(Frame(l0, heap), d_buf, CERTIFICATE_RSP_MAX_SZ)
       IN  IF rsp_data_sz > CERTIFICATE_RSP_MAX_SZ
           THEN Returns(t, Frame(l0, heap), -EFAULT)
           ELSE IF ~alloc
           THEN Returns(t, Frame(l0, heap), -ENOMEM)
           ELSE Requests(t, Frame(
                     [f1.l EXCEPT !.d_buf = d_buf,
                        !.msg.command = "COMMAND_FCS_ATTESTATION_CERTIFICATE",
                        !.msg.payload = NULL,
                        !.msg.payload_length = 0,
                        !.msg.payload_output = d_buf,
                        !.msg.payload_length_output = CERTIFICATE_RSP_MAX_SZ],
                     f1.h),
                  "fcs_attestation_callback", 1)
  /\ UNCHANGED <<lock, completion, priv, chan>>

AttestationGetCertificateEnd(t) ==
  /\ After(t, "INTEL_FCS_DEV_ATTESTATION_GET_CERTIFICATE", 1)
  /\ LET l == th[t]
         close(f) == fcs_close_services(f, NULL, l.d_buf)
     IN  IF l.ret = 0 /\ priv.status = 0 /\ priv.size > CERTIFICATE_RSP_MAX_SZ
         THEN Returns(t, close(Frame([l EXCEPT !.reads = TRUE], heap)), -EFAULT)
         ELSE \E w \in KbufContent, copy \in BOOLEAN :
                LET f1 == Frame(AttestationTaken(t, l, w), heap)
                    f2 == IF copy THEN f1 ELSE close(f1)
                IN  Returns(t, close(f2), IF copy THEN l.ret ELSE -EFAULT)
  /\ UNCHANGED <<lock, completion, priv, chan, nreq>>

\* ----------------------------------------------------------- the system
Step(t) ==
  \/ fcs_ioctl_return(t)
  \/ fcs_ioctl_nomem(t)
  \/ fcs_ioctl_copy_from_user_fault(t)
  \/ fcs_request_service_lock(t)
  \/ fcs_request_service_send(t)
  \/ fcs_request_service_wait(t)
  \/ ValidationRequestBegin(t)
  \/ ValidationRequestPhase1(t)
  \/ ValidationRequestPhase2(t)
  \/ SendCertificateBegin(t)
  \/ SendCertificatePhase1(t)
  \/ SendCertificatePhase2(t)
  \/ CounterSetPreauthorizedBegin(t)
  \/ CounterSetPreauthorizedEnd(t)
  \/ RandomNumberGenBegin(t)
  \/ RandomNumberGenEnd(t)
  \/ GetProvisionDataBegin(t)
  \/ GetProvisionDataEnd(t)
  \/ DataEncryptionBegin(t)
  \/ DataEncryptionPhase1(t)
  \/ DataEncryptionPhase2(t)
  \/ DataDecryptionBegin(t)
  \/ DataDecryptionPhase1(t)
  \/ DataDecryptionPhase2(t)
  \/ PsgsigmaTeardownBegin(t)
  \/ PsgsigmaTeardownEnd(t)
  \/ ChipIdBegin(t)
  \/ ChipIdEnd(t)
  \/ AttestationSubkeyBegin(t)
  \/ AttestationSubkeyEnd(t)
  \/ AttestationMeasurementBegin(t)
  \/ AttestationMeasurementEnd(t)
  \/ AttestationGetCertificateBegin(t)
  \/ AttestationGetCertificateEnd(t)
  \/ AttestationCertificateReloadBegin(t)
  \/ AttestationCertificateReloadEnd(t)
  \/ GetRomPatchSha384Begin(t)
  \/ GetRomPatchSha384End(t)

Next ==
  \/ \E t \in Procs : Step(t)
  \/ Callback

Spec == Init /\ [][Next]_vars


\* Callers and the channel's thread are scheduled fairly, and the mutex is
\* handed to each caller that keeps asking for it.
Fairness ==
  /\ \A t \in Procs : WF_vars(Step(t))
  /\ \A t \in Procs : SF_vars(fcs_request_service_lock(t))
  /\ WF_vars(Callback)

FairSpec == Init /\ [][Next]_vars /\ Fairness

\* ------------------------------------------------------------- claims
\* The command of caller t's latest fcs_request_service.
Own(t) == [owner |-> t, n |-> th[t].n, phase |-> th[t].phase]

\* Caller t is inside fcs_request_service.
InService(t) == th[t].pc \in {"lock", "send", "wait"}

\* C1: when a request returns, on every exit path, the number of shared
\* buffers it freed equals the number it allocated, and none of the buffers
\* it allocated is still allocated.
C1_AllocFreeBalanced ==
  \A t \in Procs :
    th[t].pc = "return" =>
      /\ Len(th[t].frees) = Cardinality(th[t].allocs)
      /\ \A b \in th[t].allocs : b \notin DOMAIN heap

\* C2: no shared buffer is passed to the pool's free operation more than
\* once by a request.
C2_NoDoubleFree ==
  \A t \in Procs :
    \A i, j \in 1..Len(th[t].frees) :
      i # j => th[t].frees[i] # th[t].frees[j]

\* C3: whenever a request dereferences priv->kbuf, the pointer refers to a
\* buffer that is allocated and was stored by the request's own callback.
C3_KbufDerefValid ==
  \A t \in Procs : th[t].deref \in {"none", "ok"}

\* C4: whenever fcs_request_service has returned to its caller, the caller
\* no longer holds priv->lock.
C4_LockReleasedOnReturn ==
  \A t \in Procs : lock = t => th[t].pc \in {"send", "wait"}

\* C5: under fair scheduling every call of fcs_request_service eventually
\* returns to its caller.
C5_EveryCallReturns ==
  \A t \in Procs : InService(t) ~> ~InService(t)

\* C6: at most one command accepted by the channel has its callback still
\* to fire.
C6_OneOutstanding == Cardinality(chan) <= 1

\* C7: a waiting request is woken only by the completion of the command it
\* submitted itself.
C7_WokenByOwnCommand ==
  \A t \in Procs : th[t].wake # "stale"

\* C8: a request reads the completion record (and derives a status from
\* it) only when the completion signal fired during its wait, never after
\* a wait that timed out or a send that was rejected.
C8_ReadOnlyAfterSignal ==
  \A t \in Procs : th[t].reads => th[t].wake \in {"own", "stale"}

\* C9: a caller woken by the completion of its own command reports the
\* status that command's callback wrote, never the status written by the
\* callback of another caller's command.
C9_ReportsOwnStatus ==
  \A t \in Procs :
    (th[t].wake = "own" /\ th[t].src # NoId) => th[t].src = Own(t)

\* Caller t has completed the primary command of a two-phase request and
\* has not yet had its poll command accepted.
InPollWindow(t) == th[t].phase = 2 /\ th[t].pc \in {"lock", "send"}

\* C10: while a two-phase request is between its primary command and its
\* poll command, no command of another caller is submitted on the channel.
C10_NoSendInPollWindow ==
  [][\A t \in Procs :
       InPollWindow(t) => \A c \in chan' \ chan : c.id.owner = t]_vars

\* The commands whose case sends a primary command and then a poll command.
TwoPhaseCmds ==
  { "INTEL_FCS_DEV_VALIDATION_REQUEST", "INTEL_FCS_DEV_SEND_CERTIFICATE",
    "INTEL_FCS_DEV_DATA_ENCRYPTION", "INTEL_FCS_DEV_DATA_DECRYPTION" }

\* The primary command of locals l (of caller t).
Primary(t, l) == [owner |-> t, n |-> l.n, phase |-> 1]

\* The status locals l report is the status of their latest command: the
\* one its own callback wrote when the caller was woken by it, and otherwise
\* (timeout, rejected send) a failure value that no other command wrote.
ReportsLatest(t, l) ==
  LET own == [owner |-> t, n |-> l.n, phase |-> l.phase]
  IN  IF l.wake = "own"
      THEN l.src = own
      ELSE l.data.status # 0 /\ l.src \in {NoId, own}

\* C11: in a two-phase request the poll command is submitted exactly when
\* the primary command returned success (ret = 0 and status 0); when the
\* primary command failed (error status, rejected send or timeout) the status
\* handed to the caller is the status of that primary command.
C11_FirstPhaseGatesPoll ==
  [][\A t \in Procs :
       ( /\ th[t].cmd \in TwoPhaseCmds
         /\ th[t].pc = "after"
         /\ th[t].phase = 1
         /\ th'[t] # th[t] ) =>
         /\ (th'[t].pc = "lock" /\ th'[t].phase = 2)
              <=> (th[t].ret = 0 /\ priv.status = 0)
         /\ (th'[t].pc = "return" /\ th'[t].ret # -EFAULT)
              => ReportsLatest(t, th'[t])]_vars

\* C12: a two-phase request whose primary command succeeded hands the caller
\* the status the poll command produced (its error code, or a failure when
\* the poll timed out or was rejected), never the primary command's status
\* and never the value the caller passed in.
C12_PollStatusReported ==
  \A t \in Procs :
    ( /\ th[t].pc = "return"
      /\ th[t].cmd \in TwoPhaseCmds
      /\ th[t].phase = 2
      /\ th[t].ret # -EFAULT ) =>
      /\ ReportsLatest(t, th[t])
      /\ th[t].src # Primary(t, th[t])

\* The commands whose case takes a size from the caller.
SizedCmds ==
  { "INTEL_FCS_DEV_SEND_CERTIFICATE", "INTEL_FCS_DEV_GET_PROVISION_DATA",
    "INTEL_FCS_DEV_DATA_ENCRYPTION", "INTEL_FCS_DEV_DATA_DECRYPTION",
    "INTEL_FCS_DEV_ATTESTATION_SUBKEY",
    "INTEL_FCS_DEV_ATTESTATION_MEASUREMENT",
    "INTEL_FCS_DEV_ATTESTATION_GET_CERTIFICATE" }

\* C13: a request that takes a size from the caller never holds a shared
\* buffer larger than the largest static bound of the driver (ENC_MAX_SZ):
\* a size outside the bounds is rejected before any buffer is allocated.
C13_SharedMemoryBounded ==
  \A t \in Procs :
    th[t].cmd \in SizedCmds =>
      \A b \in th[t].allocs \cap DOMAIN heap : heap[b].cap <= ENC_MAX_SZ

\* The request of caller t was turned down by a size check: it is returning
\* -EFAULT having allocated nothing and sent nothing.
SizeRejected(t) ==
  /\ th[t].pc = "return"
  /\ th[t].ret = -EFAULT
  /\ th[t].allocs = {}
  /\ th[t].sent = 0

\* C14: a decryption request with a valid destination size passes the size
\* checks exactly when its source size lies in DEC_MIN_SZ..DEC_MAX_SZ
\* (72..32712); with any other source size it is rejected with no buffer
\* allocated and no command sent.
C14_DecryptionSourceRange ==
  \A t \in Procs :
    ( /\ th[t].cmd = "INTEL_FCS_DEV_DATA_DECRYPTION"
      /\ th[t].pc # "idle"
      /\ th[t].arg.dst_size \in DEC_MIN_SZ..DEC_MAX_SZ ) =>
      (th[t].arg.src_size \in DEC_MIN_SZ..DEC_MAX_SZ <=> ~SizeRejected(t))

\* C14 (as the driver has it): a decryption request with a valid destination
\* size passes the size checks exactly when its source size lies in
\* ENC_MIN_SZ..ENC_MAX_SZ (120..32760); with any other source size, 71 and
\* 72 included, it is rejected with no buffer allocated and no command sent.
C14_DecryptionSourceRangeAmended ==
  \A t \in Procs :
    ( /\ th[t].cmd = "INTEL_FCS_DEV_DATA_DECRYPTION"
      /\ th[t].pc # "idle"
      /\ th[t].arg.dst_size \in DEC_MIN_SZ..DEC_MAX_SZ ) =>
      (th[t].arg.src_size \in ENC_MIN_SZ..ENC_MAX_SZ <=> ~SizeRejected(t))

\* A decryption request with source size 71 and a valid destination size
\* has been rejected by the size check.
C14_Witness ==
  \E t \in Procs :
    /\ th[t].cmd = "INTEL_FCS_DEV_DATA_DECRYPTION"
    /\ th[t].arg.src_size = DEC_MIN_SZ - 1
    /\ th[t].arg.dst_size = DEC_MAX_SZ
    /\ SizeRejected(t)

\* C15: a sub-key request whose command size exceeds SUBKEY_CMD_MAX_SZ is
\* rejected in the step that enters it, before any interaction with the
\* channel: it returns -EFAULT with no buffer allocated, no callback
\* registered, the lock not taken and no command sent.
C15_SubkeyRejectedFirst ==
  [][\A t \in Procs :
       ( /\ th[t].pc = "idle"
         /\ th'[t].cmd = "INTEL_FCS_DEV_ATTESTATION_SUBKEY"
         /\ th'[t].arg.src_size > SUBKEY_CMD_MAX_SZ ) =>
         /\ th'[t].pc = "return"
         /\ th'[t].ret = -EFAULT
         /\ th'[t].allocs = {}
         /\ th'[t].sent = 0
         /\ heap' = heap
         /\ receive_cb' = receive_cb
         /\ lock' = lock
         /\ chan' = chan]_vars

\* A sub-key request with command size SUBKEY_CMD_MAX_SZ + 1 has been
\* rejected while another caller's command is outstanding.
C15_Witness ==
  \E t \in Procs :
    /\ th[t].cmd = "INTEL_FCS_DEV_ATTESTATION_SUBKEY"
    /\ th[t].arg.src_size = SUBKEY_CMD_MAX_SZ + 1
    /\ SizeRejected(t)
    /\ chan # {}

\* The number of times buffer b was passed to the pool's free operation by
\* the request with locals l.
Freed(l, b) == Cardinality({i \in 1..Len(l.frees) : l.frees[i] = b})

\* C16: when the poll command of an encryption request times out and the
\* result is copied to the caller, the request returns -ETIMEDOUT, the
\* status field it reports is not success, and the source, destination and
\* status buffers have each been freed exactly once.
C16_EncryptionPollTimeout ==
  \A t \in Procs :
    ( /\ th[t].pc = "return"
      /\ th[t].cmd = "INTEL_FCS_DEV_DATA_ENCRYPTION"
      /\ th[t].phase = 2
      /\ th[t].wake = "timeout"
      /\ th[t].ret # -EFAULT ) =>
      /\ th[t].ret = -ETIMEDOUT
      /\ th[t].data.status # 0
      /\ \A b \in {th[t].s_buf, th[t].d_buf, th[t].ps_buf} :
           Freed(th[t], b) = 1

\* Caller t's request began with no other call in progress, no call has
\* begun since, it was woken by the completion of its own command, and no
\* other command is outstanding or has completed since the wait began.
InSequence(t) ==
  /\ th[t].solo
  /\ th[t].n = nreq
  /\ th[t].wake = "own"
  /\ chan = {}
  /\ completion = <<>>

\* C17: a random-number request issued after the ones before it have
\* finished, and completing before its timeout, returns the bytes its own
\* command's notification delivered and the status its own command's
\* callback stored, never those of another request.
C17_RandomNumberOwnPayload ==
  \A t \in Procs :
    ( /\ th[t].pc = "return"
      /\ th[t].cmd = "INTEL_FCS_DEV_RANDOM_NUMBER_GEN"
      /\ InSequence(t) ) =>
      /\ th[t].src \in {NoId, Own(t)}
      /\ th[t].deref \in {"none", "ok"}
      /\ th[t].data.payload \in {NoId, Own(t)}
      /\ (th[t].ret = 0 /\ th[t].data.status = 0) =>
           th[t].src = Own(t) /\ th[t].data.payload = Own(t)

\* The second request of a caller, a random-number request, has returned
\* success with the bytes of its own command.
C17_Witness ==
  \E t \in Procs :
    /\ th[t].pc = "return"
    /\ th[t].cmd = "INTEL_FCS_DEV_RANDOM_NUMBER_GEN"
    /\ InSequence(t)
    /\ th[t].n = 2
    /\ th[t].ret = 0
    /\ th[t].data.status = 0
    /\ th[t].data.payload = Own(t)

\* C18: when the channel rejects the send, fcs_request_service returns at
\* once, without waiting on the completion, and returns -EINVAL; the only
\* other failure it returns is -ETIMEDOUT, after a wait that timed out, and
\* it returns 0 whenever the completion fired.
C18_RejectedSendFailsAtOnce ==
  [][\A t \in Procs :
       /\ ( /\ th[t].pc = "send"
            /\ th'[t].pc # "send"
            /\ chan' = chan ) =>
            /\ th'[t].pc = "after"
            /\ th'[t].ret = -EINVAL
            /\ th'[t].wake = "rejected"
            /\ completion' = completion
            /\ priv' = priv
       /\ th'[t].pc = "after" =>
            /\ th'[t].ret = -EINVAL <=> th'[t].wake = "rejected"
            /\ th'[t].ret = -ETIMEDOUT <=> th'[t].wake = "timeout"
            /\ th'[t].ret = 0 <=> th'[t].wake \in {"own", "stale"}]_vars

\* fcs_request_service has returned -EINVAL for a send the channel
\* rejected, with no completion signalled.
C18_Witness ==
  \E t \in Procs :
    /\ th[t].pc = "after"
    /\ th[t].wake = "rejected"
    /\ th[t].ret = -EINVAL
    /\ th[t].sent = 0
    /\ completion = <<>>

\* C19: a chip-identifier request whose notification carried SVC_STATUS_OK,
\* and which reads the record that notification's callback left, returns
\* status 0 and the notification's two words as the low and the high half
\* of the identifier.
C19_ChipIdWords ==
  \A t \in Procs :
    ( /\ th[t].pc = "return"
      /\ th[t].cmd = "INTEL_FCS_DEV_CHIP_ID"
      /\ th[t].ret = 0
      /\ th[t].src = Own(t)
      /\ priv.wstatus = Own(t)
      /\ priv.wok ) =>
      /\ th[t].data.status = 0
      /\ th[t].data.cid_low \in ChipLow
      /\ th[t].data.cid_high \in ChipHigh

\* C20: the callback that interprets the notification of a request's
\* command is the one the request selected for that command, whatever other
\* callers do between the selection and the notification.
C20_SelectedCallbackRuns ==
  [][\A c \in chan \ chan' :
       LET l == th[c.id.owner]
       IN  (l.n = c.id.n /\ l.phase = c.id.phase) => receive_cb = l.cb]_vars

\* C21: whenever fcs_data_callback receives a notification it signals the
\* completion once and leaves the record as follows: for OK or COMPLETED
\* status 0, the notification's result pointer and its length; for ERROR
\* the mailbox error code, the notification's result pointer, and its
\* length when one is supplied (0 otherwise); for any other status -EINVAL,
\* a null result pointer and length 0.
C21_DataShapeMapping ==
  [][\A c \in chan \ chan' :
       receive_cb = "fcs_data_callback" =>
         /\ Len(completion') = Len(completion) + 1
         /\ \E d \in Notification(c) :
              IF d.status \in {BIT(SVC_STATUS_OK), BIT(SVC_STATUS_COMPLETED)}
              THEN /\ priv'.status = 0
                   /\ priv'.kbuf = d.kaddr2
                   /\ priv'.size = d.w3
              ELSE IF d.status = BIT(SVC_STATUS_ERROR)
              THEN /\ priv'.status = d.w1
                   /\ priv'.kbuf = d.kaddr2
                   /\ priv'.size = IF d.k3 THEN d.w3 ELSE 0
              ELSE /\ priv'.status = -EINVAL
                   /\ priv'.kbuf = NULL
                   /\ priv'.size = 0]_vars

\* fcs_data_callback has received an ERROR notification with a partial
\* result: the record holds the error code, the pointer and the length.
C21_Witness ==
  /\ receive_cb = "fcs_data_callback"
  /\ priv.status \in MboxError
  /\ priv.kbuf # NULL
  /\ priv.size \in NotifSize
  /\ priv.wkbuf = priv.wstatus
  /\ Len(completion) = 1

\* C22: whenever fcs_vab_callback receives a notification it stores the
\* mailbox error code for ERROR, -ETIMEDOUT for BUSY, -EINVAL for
\* INVALID_PARAM, 0 for OK and -EINVAL for any other status, and it leaves
\* the record's result pointer, result length and identifier words alone.
C22_StatusOnlyMapping ==
  [][\A c \in chan \ chan' :
       receive_cb = "fcs_vab_callback" =>
         /\ priv'.kbuf = priv.kbuf
         /\ priv'.size = priv.size
         /\ priv'.cid_low = priv.cid_low
         /\ priv'.cid_high = priv.cid_high
         /\ \E d \in Notification(c) :
              priv'.status =
                CASE d.status = BIT(SVC_STATUS_ERROR) -> d.w1
                  [] d.status = BIT(SVC_STATUS_BUSY) -> -ETIMEDOUT
                  [] d.status = BIT(SVC_STATUS_INVALID_PARAM) -> -EINVAL
                  [] d.status = BIT(SVC_STATUS_OK) -> 0
                  [] OTHER -> -EINVAL]_vars

\* fcs_vab_callback has received a BUSY notification after an earlier
\* command left a result pointer in the record: the status is -ETIMEDOUT
\* and the pointer is still there.
C22_Witness ==
  /\ receive_cb = "fcs_vab_callback"
  /\ priv.status = -ETIMEDOUT
  /\ priv.kbuf # NULL
  /\ priv.wstatus # priv.wkbuf

\* C23: whenever fcs_attestation_callback receives a notification it
\* stores the notification's status as it is, whatever the status, and
\* sets the result pointer and the length as fcs_data_callback does.
C23_AttestationVerbatim ==
  [][\A c \in chan \ chan' :
       receive_cb = "fcs_attestation_callback" =>
         \E d \in Notification(c) :
           /\ priv'.status = d.status
           /\ IF d.status \in {BIT(SVC_STATUS_OK), BIT(SVC_STATUS_COMPLETED)}
              THEN priv'.kbuf = d.kaddr2 /\ priv'.size = d.w3
              ELSE IF d.status = BIT(SVC_STATUS_ERROR)
              THEN /\ priv'.kbuf = d.kaddr2
                   /\ priv'.size = IF d.k3 THEN d.w3 ELSE 0
              ELSE priv'.kbuf = NULL /\ priv'.size = 0]_vars

\* C23 (as the driver has it): whenever fcs_attestation_callback receives
\* a notification it signals the completion once; for OK it stores status
\* 0, the notification's result pointer and its length; for ERROR it stores
\* the mailbox error code and leaves pointer and length alone; for any
\* other status it stores the status as it is and leaves pointer and length
\* alone.
C23_AttestationMapping ==
  [][\A c \in chan \ chan' :
       receive_cb = "fcs_attestation_callback" =>
         /\ Len(completion') = Len(completion) + 1
         /\ \E d \in Notification(c) :
              IF d.status = BIT(SVC_STATUS_OK)
              THEN /\ priv'.status = 0
                   /\ priv'.kbuf = d.kaddr2
                   /\ priv'.size = d.w3
              ELSE /\ priv'.status = IF d.status = BIT(SVC_STATUS_ERROR)
                                     THEN d.w1 ELSE d.status
                   /\ priv'.kbuf = priv.kbuf
                   /\ priv'.size = priv.size]_vars

\* fcs_attestation_callback has received an OK notification with a result:
\* the record holds status 0, the pointer and the length.
C23_Witness ==
  /\ receive_cb = "fcs_attestation_callback"
  /\ priv.status = 0
  /\ priv.kbuf # NULL
  /\ priv.size \in NotifSize
  /\ priv.wkbuf = priv.wstatus
  /\ Len(completion) = 1

\* C24: the second command of a two-phase request is accepted by the
\* channel with the command id COMMAND_POLL_SERVICE_STATUS and with the
\* request's status buffer ps_buf, of PS_BUF_SIZE bytes, as its payload.
C24_PollUsesStatusBuffer ==
  \A c \in chan :
    c.id.phase = 2 =>
      /\ c.command = "COMMAND_POLL_SERVICE_STATUS"
      /\ c.payload = [owner |-> c.id.owner, n |-> c.id.n, slot |-> "ps_buf"]
      /\ c.payload_length = PS_BUF_SIZE

C26_CopyWithinCapacity ==
  \A t \in Procs :
    th[t].deref = "ok" => th[t].copy.len <= th[t].copy.cap

\* C27: while a command accepted by the channel has its callback still to
\* fire, the buffers it names as payload and as output payload stay
\* allocated.
C27_NoFreeWhileOutstanding ==
  \A c \in chan :
    \A b \in {c.payload, c.payload_output} :
      b # NULL => b \in DOMAIN heap

=============================================================================
